---- MODULE Spec2Model ----
(***************************************************************************)
(* Model of dmcutils/neospool.py: the Andor Neo/Zyla spool-file reader     *)
(* (readNeoSpool), the acquisition-metadata resolver (spoolparam), the     *)
(* tick index builder (tickfile) and the index/directory loader            *)
(* (spoolpath).                                                            *)
(*                                                                         *)
(* Three specifications share the module:                                  *)
(*   SpecRead  - one readNeoSpool call on every bounded input              *)
(*   SpecParam - one spoolparam call on every bounded metadata file        *)
(*   Spec      - tickfile builds and spoolpath loads over a small file     *)
(*               system                                                    *)
(***************************************************************************)
EXTENDS Integers, Sequences, FiniteSets, TLC

\* ------------------------------------------------------------------ bounds
MaxX == 2
MaxY == 2
MaxZero == 1
MaxStrideWords == 3
MaxFrames == 2
MaxFiles == 3
MaxCalls == 2
\* ticks are uint64 in the file and int64 in the index; the model keeps the
\* two's-complement conversion at a width of TickBits bits
TickBits == 2

VARIABLES
    call,      \* readNeoSpool: the arguments of the call (fn, P, ifrm, tickonly, zerocols)
    result,    \* readNeoSpool: what the call returned or raised
    ini,       \* spoolparam: the metadata file and the caller's arguments
    geom,      \* spoolparam: what the call returned or raised
    log,       \* messages handed to logging.* so far
    flist,     \* tickfile: the container files handed to the build
    P0,        \* tickfile: the geometry handed to the build
    fs,        \* the output directory: target name -> what is on disk
    pc,        \* tickfile: position in the function body
    outfn,     \* tickfile: local outfn (after Path(), after suffix normalisation)
    ticks,     \* tickfile: local ticks (np.int64 array)
    F,         \* tickfile: local F (Series: index, values)
    err,       \* tickfile: the exception that ended the last call ("none" if it returned)
    ncalls,    \* tickfile calls started so far
    nscanned,  \* container files the running call has handed to readNeoSpool
    loaded     \* spoolpath: what the last call returned or raised

vars == <<call, result, ini, geom, log, flist, P0, fs, pc, outfn, ticks, F, err,
          ncalls, nscanned, loaded>>

readVars  == <<call, result>>
paramVars == <<ini, geom>>
tickVars  == <<flist, P0, fs, pc, outfn, ticks, F, err, ncalls, nscanned, loaded>>

Min(a, b) == IF a < b THEN a ELSE b

\* ------------------------------------------------------- container files
\* A container file is [name, parent, suffix, size, base, step]: `size` bytes,
\* and the item that starts at byte offset o holds the value base + step*o.
\* step = 1, base = 0 tags every item with its own offset (every frame's
\* trailer words are distinct); step = 0 fills the file with one value.
ItemAt(f, o) == f.base + f.step * o

\* np.fromfile(f, dtype, count) at file position pos: the complete items that
\* are left in the file, at most count of them (a short read is not an error).
FromFile(f, pos, itemsize, count) ==
    LET left == IF f.size > pos THEN (f.size - pos) \div itemsize ELSE 0
        n    == Min(count, left)
    IN  [k \in 1..n |-> ItemAt(f, pos + (k - 1) * itemsize)]

\* dtype(0).itemsize for np.uint16 / np.uint32
ItemSize(bpp) == IF bpp = 16 THEN 2 ELSE 4

\* arr[-2] of a 1-D array: IndexError when it has fewer than two elements
HasSecondLast(words) == Len(words) >= 2
SecondLast(words) == words[Len(words) - 1]

\* img.reshape((ny, nx+zerocols)): rows of the raw grid, row-major
Reshape(items, rows, cols) ==
    [r \in 1..rows |-> [c \in 1..cols |-> items[(r - 1) * cols + c]]]

\* img[:, xslice]: slice(None, -zerocols) for 16 bit with zerocols > 0,
\* slice(None) otherwise (32 bit never strips)
XSlice(row, bpp, zerocols) ==
    IF bpp = 16 /\ zerocols > 0
    THEN SubSeq(row, 1, Len(row) - zerocols)
    ELSE row

Raise(name) == [exc |-> name, imgs |-> <<>>, ticks |-> <<>>, tick |-> -1]

\* the for-loop of readNeoSpool over the selected frames; `acc` carries
\* imgs[:j] and ticks[:j]
RECURSIVE ReadLoop(_, _, _, _, _, _)
ReadLoop(f, P, zerocols, bytesperframe, sel, acc) ==
    IF sel = <<>> THEN acc
    ELSE
      LET i        == Head(sel)
          nx       == P.superx
          ny       == P.supery
          npix     == (nx + zerocols) * ny
          isz      == ItemSize(P.bpp)
          pos      == i * bytesperframe
          items    == FromFile(f, pos, isz, npix)
          words    == FromFile(f, pos + Len(items) * isz, 8, P.stride \div 8)
      IN  IF Len(items) # npix
          THEN Raise("ValueError")        \* reshape of a short read
          ELSE
            LET img == Reshape(items, ny, nx + zerocols)
                cut == [r \in 1..ny |-> XSlice(img[r], P.bpp, zerocols)]
            IN  IF \E r \in 1..ny : Len(cut[r]) # nx
                THEN Raise("ValueError")  \* imgs[j,...] = img[:,xslice] cannot broadcast
                ELSE IF ~HasSecondLast(words)
                THEN Raise("IndexError")
                ELSE ReadLoop(f, P, zerocols, bytesperframe, Tail(sel),
                              [acc EXCEPT !.imgs  = Append(@, cut),
                                          !.ticks = Append(@, SecondLast(words))])

\* the byte offset the tick-only path seeks to before it reads the trailer
\* (f.seek(npixframe*itemsize, 0): ifrm takes no part in it)
TickOnlySeek(P, zerocols) == (P.superx + zerocols) * P.supery * ItemSize(P.bpp)

\* ifrm: None -> range(nframefile), int -> [ifrm], a list as it is
Selected(P, sel) ==
    IF sel.kind = "none" THEN [k \in 1..P.nframefile |-> k - 1]
    ELSE IF sel.kind = "int" THEN <<sel.i>>
    ELSE sel.l

\* the two size checks of readNeoSpool (lines 178 and 182), as the exception
\* they raise, "none" when both pass
SizeCheck(f, P, zerocols) ==
    LET npix == (P.superx + zerocols) * P.supery
    IN  IF P.framebytes # ((npix * P.bpp) \div 8) + P.stride
        THEN "IOError_framebytes"
        ELSE IF P.nframefile # f.size \div P.framebytes
        THEN "IOError_nframes"
        ELSE "none"

readNeoSpool(f, P, sel, tonly, zerocols) ==
    LET npix == (P.superx + zerocols) * P.supery
    IN
    IF f.suffix # ".dat" THEN Raise("AssertionError")
    ELSE IF P.bpp \notin {16, 32} THEN Raise("NotImplementedError")
    ELSE IF SizeCheck(f, P, zerocols) # "none" THEN Raise(SizeCheck(f, P, zerocols))
    ELSE IF tonly
    THEN LET words == FromFile(f, TickOnlySeek(P, zerocols), 8, P.stride \div 8)
         IN  IF HasSecondLast(words)
             THEN [exc |-> "none", imgs |-> <<>>, ticks |-> <<>>, tick |-> SecondLast(words)]
             ELSE Raise("IndexError")
    ELSE LET bytesperframe == npix * ItemSize(P.bpp) + (P.stride \div 8) * 8
         IN  IF bytesperframe # P.framebytes THEN Raise("AssertionError")
             ELSE ReadLoop(f, P, zerocols, bytesperframe, Selected(P, sel),
                           [exc |-> "none", imgs |-> <<>>, ticks |-> <<>>, tick |-> -1])

\* ------------------------------------------------------ SpecRead: inputs
Strides == {8 * k : k \in 1..MaxStrideWords} \cup {20}
FrameSelectors ==
    {[kind |-> "none"]}
    \cup {[kind |-> "int", i |-> i] : i \in 0..MaxFrames}
    \cup {[kind |-> "list", l |-> l] : l \in {<<0, 1>>, <<1, 0>>}}

Geometries(zerocols) ==
    {[superx |-> x, supery |-> y, nframefile |-> n, stride |-> s,
      framebytes |-> (((x + zerocols) * y * b) \div 8) + s + d, bpp |-> b] :
        x \in 1..MaxX, y \in 1..MaxY, n \in 1..MaxFrames, s \in Strides,
        b \in {12, 16, 32}, d \in {0, 8}}

\* a tagged container of q complete frames and r bytes of an incomplete one
TaggedFile(suffix, P, q, r) ==
    [name |-> 1, parent |-> "spool", suffix |-> suffix,
     size |-> q * P.framebytes + r, base |-> 0, step |-> 1]

NoCall   == [fn |-> [name |-> 0, parent |-> "", suffix |-> "", size |-> 0, base |-> 0, step |-> 0],
             P |-> [superx |-> 0, supery |-> 0, nframefile |-> 0, stride |-> 0,
                    framebytes |-> 0, bpp |-> 0],
             ifrm |-> [kind |-> "none"], tickonly |-> FALSE, zerocols |-> 0]
NoResult == [exc |-> "pending", imgs |-> <<>>, ticks |-> <<>>, tick |-> -1]
NoIni    == [called |-> FALSE]
NoGeom   == [exc |-> "pending"]

TickIdle ==
    /\ flist = <<>> /\ P0 = NoCall.P /\ fs = <<>> /\ pc = "off" /\ outfn = 0
    /\ ticks = <<>> /\ F = <<>> /\ err = "none" /\ ncalls = 0 /\ nscanned = 0
    /\ loaded = <<>>

InitRead ==
    /\ \E z \in 0..MaxZero, sfx \in {".dat", ".h5"}, q \in 0..MaxFrames, r \in {0, 6},
          sel \in FrameSelectors, t \in BOOLEAN :
         \E P \in Geometries(z) :
            call = [fn |-> TaggedFile(sfx, P, q, r), P |-> P, ifrm |-> sel,
                    tickonly |-> t, zerocols |-> z]
    /\ result = NoResult
    /\ ini = NoIni /\ geom = NoGeom /\ log = <<>>
    /\ TickIdle

ReadNeoSpool ==
    /\ result.exc = "pending"
    /\ result' = readNeoSpool(call.fn, call.P, call.ifrm, call.tickonly, call.zerocols)
    /\ UNCHANGED <<call, log, paramVars, tickVars>>

NextRead == ReadNeoSpool

SpecRead == InitRead /\ [][NextRead]_vars

\* --------------------------------------------------- SpecRead: the claims
ReadDone == result.exc # "pending"

ExpectedFrameBytes(P, zerocols) ==
    (((P.superx + zerocols) * P.supery * P.bpp) \div 8) + P.stride

\* a geometry the data model calls valid and a container that matches it:
\* 16 or 32 bit, framebytes consistent, a trailer of whole 8-byte words that
\* has a second-from-last word, exactly nframefile frames in a .dat file
WellFormedCall ==
    /\ call.fn.suffix = ".dat"
    /\ call.P.bpp \in {16, 32}
    /\ call.P.framebytes = ExpectedFrameBytes(call.P, call.zerocols)
    /\ call.P.stride % 8 = 0 /\ call.P.stride >= 16
    /\ call.fn.size = call.P.nframefile * call.P.framebytes

\* the offset of the second-from-last trailer word of frame i
TickOffset(P, zerocols, i) ==
    i * P.framebytes + (P.superx + zerocols) * P.supery * ItemSize(P.bpp)
      + P.stride - 16

\* C1: on a valid geometry and a matching container, a tick-only call with
\* frame selector i returns the tick a full decode of frame i returns, the
\* second-from-last trailer word after frame i's pixels at i*framebytes.
\* (Stated for zerocols = 0, where the full decode of every valid geometry
\* succeeds.)
C1_TickOnlyMatchesFull ==
    (/\ ReadDone /\ WellFormedCall /\ call.zerocols = 0
     /\ call.tickonly /\ call.ifrm.kind = "int" /\ call.ifrm.i < call.P.nframefile)
    => LET full == readNeoSpool(call.fn, call.P, call.ifrm, FALSE, call.zerocols)
       IN  /\ result.exc = "none" /\ full.exc = "none"
           /\ result.tick = full.ticks[1]
           /\ result.tick = ItemAt(call.fn, TickOffset(call.P, call.zerocols, call.ifrm.i))

\* C5: a declared framebytes that differs from the recomputed one is reported
\* as a warning only: the call logs it, raises nothing for it and decodes.
C5_MismatchIsWarning ==
    (/\ ReadDone /\ call.fn.suffix = ".dat" /\ call.P.bpp \in {16, 32}
     /\ call.P.framebytes # ExpectedFrameBytes(call.P, call.zerocols))
    => (result.exc # "IOError_framebytes" /\ log # <<>>)

\* C6: a full decode with ifrm=None of a container that is short or not a
\* whole number of frames returns the floor(size/framebytes) complete frames
\* with their ticks, logs a warning and raises nothing.
C6_ShortFileTruncates ==
    (/\ ReadDone /\ call.fn.suffix = ".dat" /\ call.P.bpp \in {16, 32}
     /\ call.P.framebytes = ExpectedFrameBytes(call.P, call.zerocols)
     /\ call.P.stride % 8 = 0 /\ call.P.stride >= 16
     /\ ~call.tickonly /\ call.ifrm.kind = "none"
     /\ \/ call.fn.size % call.P.framebytes # 0
        \/ call.fn.size \div call.P.framebytes < call.P.nframefile)
    => /\ result.exc = "none"
       /\ Len(result.imgs) = call.fn.size \div call.P.framebytes
       /\ Len(result.ticks) = call.fn.size \div call.P.framebytes
       /\ log # <<>>

\* C9: a full decode on a valid geometry (16 or 32 bit, any zerocols >= 0)
\* returns frames of supery rows and superx columns: the raw
\* supery x (superx+zerocols) grid without the last zerocols columns.
C9_PaddingStripped ==
    (/\ ReadDone /\ WellFormedCall /\ ~call.tickonly
     /\ \A k \in 1..Len(Selected(call.P, call.ifrm)) :
           Selected(call.P, call.ifrm)[k] < call.P.nframefile)
    => /\ result.exc = "none"
       /\ Len(result.imgs) = Len(Selected(call.P, call.ifrm))
       /\ \A j \in 1..Len(result.imgs) :
            /\ Len(result.imgs[j]) = call.P.supery
            /\ \A r \in 1..call.P.supery :
                 /\ Len(result.imgs[j][r]) = call.P.superx
                 /\ \A c \in 1..call.P.superx :
                      result.imgs[j][r][c] =
                        ItemAt(call.fn,
                               Selected(call.P, call.ifrm)[j] * call.P.framebytes
                               + ((r - 1) * (call.P.superx + call.zerocols) + (c - 1))
                                 * ItemSize(call.P.bpp))

\* ------------------------------------------------------------- spoolparam
\* The metadata file is [exists, ImagesPerFile, hasData, ImageSizeBytes,
\* ImageSize, AOIWidth, AOIHeight, AOIStride, PixelEncoding]; a key that the
\* file does not hold is Missing. The caller's superx, supery and stride are
\* None when not given.
Missing == -1
None == -2

Encodings == {"Mono16", "Mono32", "Mono12", "Mono12Packed"}

\* int(encoding[-2:]): the last two characters as a decimal number; NotANumber
\* where int() raises ValueError ("ed" of Mono12Packed)
NotANumber == -3
LastTwoInt(enc) ==
    CASE enc = "Mono16" -> 16
      [] enc = "Mono32" -> 32
      [] enc = "Mono12" -> 12
      [] OTHER -> NotANumber

ParamRaise(name, lg) == [exc |-> name, log |-> lg]
ParamReturn(x, y, n, s, fb, b, lg) ==
    [exc |-> "none", log |-> lg,
     P |-> [superx |-> x, supery |-> y, nframefile |-> n, stride |-> s,
            framebytes |-> fb, bpp |-> b]]

\* the 2016-present branch (ImageSizeBytes in C['data'])
NewFormat(m) ==
    IF m.AOIWidth = Missing \/ m.AOIHeight = Missing \/ m.AOIStride = Missing
       \/ m.PixelEncoding = "" THEN ParamRaise("NoOptionError", <<>>)
    ELSE LET lg == IF m.PixelEncoding \notin {"Mono32", "Mono16"}
                   THEN <<"critical">> ELSE <<>>
         IN  IF LastTwoInt(m.PixelEncoding) = NotANumber
             THEN ParamRaise("ValueError", lg)
             ELSE ParamReturn(m.AOIWidth, m.AOIHeight, m.ImagesPerFile, m.AOIStride,
                              m.ImageSizeBytes, LastTwoInt(m.PixelEncoding), lg)

\* the 2012-201? branch (ImageSize in C['data']); the sanity check
\* superx*supery*2 < 0.9*framebytes or > 0.999*framebytes in integers
OldFormat(m, superx, supery, stride) ==
    IF superx = None \/ supery = None THEN ParamRaise("TypeError", <<>>)
    ELSE LET sz == superx * supery * 2
             lg == IF 10 * sz < 9 * m.ImageSize \/ 1000 * sz > 999 * m.ImageSize
                   THEN <<"critical">> ELSE <<>>
         IN  ParamReturn(superx, supery, m.ImagesPerFile, stride, m.ImageSize, 16, lg)

\* neither key: no branch assigns framebytes or bpp, and building P reads them
NoFormat(m, superx, supery, stride) == ParamRaise("UnboundLocalError", <<>>)

spoolparam(m, superx, supery, stride) ==
    IF ~m.exists THEN ParamRaise("FileNotFoundError", <<>>)
    ELSE IF m.ImagesPerFile = Missing THEN ParamRaise("NoOptionError", <<>>)
    ELSE IF ~m.hasData THEN ParamRaise("KeyError", <<>>)
    ELSE IF m.ImageSizeBytes # Missing THEN NewFormat(m)
    ELSE IF m.ImageSize # Missing THEN OldFormat(m, superx, supery, stride)
    ELSE NoFormat(m, superx, supery, stride)

MetadataFiles ==
    [exists : BOOLEAN, ImagesPerFile : {Missing, 1, MaxFrames}, hasData : BOOLEAN,
     ImageSizeBytes : {Missing, 20}, ImageSize : {Missing, 13, 20},
     AOIWidth : {Missing, MaxX}, AOIHeight : {MaxY}, AOIStride : {16},
     PixelEncoding : Encodings]

InitParam ==
    /\ \E m \in MetadataFiles, x \in {None, 2, 3}, y \in {None, 3}, s \in {None, 16} :
         ini = [called |-> TRUE, m |-> m, superx |-> x, supery |-> y, stride |-> s]
    /\ geom = NoGeom /\ log = <<>>
    /\ call = NoCall /\ result = NoResult
    /\ TickIdle

Spoolparam ==
    /\ geom.exc = "pending"
    /\ LET r == spoolparam(ini.m, ini.superx, ini.supery, ini.stride)
       IN  /\ geom' = [k \in DOMAIN r \ {"log"} |-> r[k]]
           /\ log' = log \o r.log
    /\ UNCHANGED <<ini, readVars, tickVars>>

NextParam == Spoolparam

SpecParam == InitParam /\ [][NextParam]_vars

\* the errors that report unusable acquisition metadata
MetadataErrors == {"FileNotFoundError", "NoOptionError", "KeyError", "MetadataError"}

\* C10: spoolparam dispatches on key presence. With ImageSizeBytes it returns
\* width, height, stride, framebytes and bpp as the metadata gives them; with
\* only ImageSize it returns bpp = 16 and the caller's width, height and
\* stride; with neither key it fails with a metadata error and returns no
\* geometry. (Stated on metadata that is otherwise complete, with a
\* recognised PixelEncoding and caller arguments that were given.)
C10_FormatDispatch ==
    (/\ geom.exc # "pending"
     /\ ini.m.exists /\ ini.m.ImagesPerFile # Missing /\ ini.m.hasData
     /\ ini.m.AOIWidth # Missing /\ ini.m.PixelEncoding \in {"Mono16", "Mono32"}
     /\ ini.superx # None /\ ini.supery # None /\ ini.stride # None)
    => IF ini.m.ImageSizeBytes # Missing
       THEN /\ geom.exc = "none"
            /\ geom.P = [superx |-> ini.m.AOIWidth, supery |-> ini.m.AOIHeight,
                         nframefile |-> ini.m.ImagesPerFile, stride |-> ini.m.AOIStride,
                         framebytes |-> ini.m.ImageSizeBytes,
                         bpp |-> IF ini.m.PixelEncoding = "Mono16" THEN 16 ELSE 32]
       ELSE IF ini.m.ImageSize # Missing
       THEN /\ geom.exc = "none"
            /\ geom.P = [superx |-> ini.superx, supery |-> ini.supery,
                         nframefile |-> ini.m.ImagesPerFile, stride |-> ini.stride,
                         framebytes |-> ini.m.ImageSize, bpp |-> 16]
       ELSE geom.exc \in MetadataErrors

\* --------------------------------------------------- the output directory
\* A target name is [stem, suffix]; what the directory holds under a name is
\* a record [kind, size, h5, keys, index, fn, path]: nothing, a directory, or
\* a file of `size` (0, or positive in abstract units). An HDF5 file has
\* h5 = TRUE and the datasets named in `keys`.
Targets == {[stem |-> "ticks", suffix |-> ".h5"], [stem |-> "ticks", suffix |-> ".idx"]}

Absent    == [kind |-> "absent", size |-> 0, h5 |-> FALSE, keys |-> {},
              index |-> <<>>, fn |-> <<>>, path |-> ""]
Directory == [Absent EXCEPT !.kind = "dir"]
EmptyFile == [Absent EXCEPT !.kind = "file"]
OtherFile == [Absent EXCEPT !.kind = "file", !.size = 1]
NewH5     == [Absent EXCEPT !.kind = "file", !.size = 1, !.h5 = TRUE]

IsFile(x) == x.kind = "file"
IsDir(x)  == x.kind = "dir"

WithSuffix(n, sfx) == [n EXCEPT !.suffix = sfx]

\* ---------------------------------------------------------------- tickfile
\* lines 244-245: an existing file that is not named .h5 is renamed to .h5
NormaliseTarget(fsys, o) ==
    IF IsFile(fsys[o]) /\ o.suffix # ".h5" THEN WithSuffix(o, ".h5") ELSE o

\* lines 247-248 ("yes check a second time"): is the target a non-empty file?
TargetConflict_AsGiven(fsys, given, norm) ==
    IsFile(fsys[given]) /\ fsys[given].size > 0
TargetConflict(fsys, given, norm) ==
    IsFile(fsys[norm]) /\ fsys[norm].size > 0

\* ticks[i] = <np.uint64>: the store into the np.int64 array, two's
\* complement at the model's width
TickMod == 2 ^ TickBits
ToInt64(v) ==
    LET m == v % TickMod
    IN  IF m >= TickMod \div 2 THEN m - TickMod ELSE m

\* F.sort_index(inplace=True): the default kind is 'quicksort', which orders
\* the index ascending and leaves the order among equal index values open; an
\* index that is already ascending is left as it is. The orders it can
\* produce, each a sequence of positions into `idx`.
Orderings(n) == {p \in [1..n -> 1..n] : \A i, j \in 1..n : i # j => p[i] # p[j]}
IsAscending(idx) == \A k \in 1..(Len(idx) - 1) : idx[k] <= idx[k + 1]
SortIndexOrders(idx) ==
    IF IsAscending(idx) THEN {[k \in 1..Len(idx) |-> k]}
    ELSE {p \in Orderings(Len(idx)) :
             \A i, j \in 1..Len(idx) : i < j => idx[p[i]] <= idx[p[j]]}

Err(name, at) == [exc |-> name, at |-> at]
NoErr == Err("none", "")

\* the geometry and zerocol of the builds, and the container files it fits
TickGeometry == [superx |-> 2, supery |-> 1, nframefile |-> 1, stride |-> 16,
                 framebytes |-> 20, bpp |-> 16]
GoodFile(i, t) == [name |-> i, parent |-> "spool", suffix |-> ".dat", size |-> 20,
                   base |-> t, step |-> 0]
ShortFile(i)   == [GoodFile(i, 0) EXCEPT !.size = 10]
NotDatFile(i)  == [GoodFile(i, 0) EXCEPT !.suffix = ".tmp"]
FilesAt(i) == {GoodFile(i, t) : t \in 0..(TickMod - 1)} \cup {ShortFile(i), NotDatFile(i)}
FileLists ==
    UNION {{l \in [1..n -> UNION {FilesAt(i) : i \in 1..n}] :
               \A i \in 1..n : l[i] \in FilesAt(i)} : n \in 0..MaxFiles}

NoLoad == [exc |-> "pending", path |-> [stem |-> "", suffix |-> ""], from |-> "", files |-> <<>>]
NoTarget == [stem |-> "", suffix |-> ""]

Init ==
    /\ flist \in FileLists
    /\ P0 = [P |-> TickGeometry, zerocol |-> 0]
    /\ fs \in {f \in [Targets -> {Absent, Directory, EmptyFile, OtherFile}] :
                 f[[stem |-> "ticks", suffix |-> ".idx"]] # Directory}
    /\ pc = "idle" /\ outfn = NoTarget /\ ticks = <<>> /\ F = [index |-> <<>>, values |-> <<>>]
    /\ err = NoErr /\ ncalls = 0 /\ nscanned = 0 /\ loaded = NoLoad
    /\ call = NoCall /\ result = NoResult /\ ini = NoIni /\ geom = NoGeom /\ log = <<>>

\* tickfile(flist, P, o, zerocol), lines 238-252: the input checks, up to the
\* allocation of ticks
Call(o) ==
    /\ pc = "idle" /\ ncalls < MaxCalls
    /\ ncalls' = ncalls + 1
    /\ nscanned' = 0 /\ ticks' = <<>> /\ F' = [index |-> <<>>, values |-> <<>>]
    /\ loaded' = NoLoad
    /\ IF IsDir(fs[o])
       THEN /\ outfn' = o
            /\ err' = Err("AssertionError", "args") /\ pc' = "idle"
       ELSE /\ outfn' = NormaliseTarget(fs, o)
            /\ IF TargetConflict(fs, o, outfn')
               THEN err' = Err("IOError", "conflict") /\ pc' = "idle"
               ELSE err' = NoErr /\ pc' = "scan"
    /\ UNCHANGED <<flist, P0, fs, log, readVars, paramVars>>

\* one turn of the loop at lines 254-257: ticks[i] = readNeoSpool(f,P,0,True,zerocol)
ScanFile ==
    /\ pc = "scan" /\ nscanned < Len(flist)
    /\ nscanned' = nscanned + 1
    /\ LET r == readNeoSpool(flist[nscanned + 1], P0.P, [kind |-> "int", i |-> 0],
                             TRUE, P0.zerocol)
       IN  IF r.exc # "none"
           THEN /\ err' = Err(r.exc, "scan") /\ pc' = "idle"
                /\ UNCHANGED ticks
           ELSE /\ ticks' = Append(ticks, ToInt64(r.tick))
                /\ UNCHANGED <<err, pc>>
    /\ UNCHANGED <<flist, P0, fs, outfn, F, ncalls, loaded, log, readVars, paramVars>>

\* lines 259-260: F = Series(index=ticks, data=names); F.sort_index(inplace=True)
SortIndex ==
    /\ pc = "scan" /\ nscanned = Len(flist)
    /\ \E p \in SortIndexOrders(ticks) :
          F' = [index  |-> [k \in 1..Len(ticks) |-> ticks[p[k]]],
                values |-> [k \in 1..Len(ticks) |-> flist[p[k]].name]]
    /\ pc' = "open"
    /\ UNCHANGED <<flist, P0, fs, outfn, ticks, err, ncalls, nscanned, loaded, log,
                   readVars, paramVars>>

\* line 267: h5py.File(outfn, 'w') creates the file or truncates it
OpenTarget ==
    /\ pc = "open"
    /\ IF IsDir(fs[outfn])
       THEN /\ err' = Err("OSError", "open") /\ pc' = "idle" /\ UNCHANGED fs
       ELSE /\ fs' = [fs EXCEPT ![outfn] = NewH5]
            /\ pc' = "index" /\ UNCHANGED err
    /\ UNCHANGED <<flist, P0, outfn, ticks, F, ncalls, nscanned, loaded, log,
                   readVars, paramVars>>

\* line 268: f['index'] = F.index
WriteIndex ==
    /\ pc = "index"
    /\ fs' = [fs EXCEPT ![outfn].keys = @ \cup {"index"}, ![outfn].index = F.index]
    /\ pc' = "fn"
    /\ UNCHANGED <<flist, P0, outfn, ticks, F, err, ncalls, nscanned, loaded, log,
                   readVars, paramVars>>

\* line 269: f['fn'] = F.values
WriteFn ==
    /\ pc = "fn"
    /\ fs' = [fs EXCEPT ![outfn].keys = @ \cup {"fn"}, ![outfn].fn = F.values]
    /\ pc' = "path"
    /\ UNCHANGED <<flist, P0, outfn, ticks, F, err, ncalls, nscanned, loaded, log,
                   readVars, paramVars>>

\* line 270: f['path'] = str(flist[0].parent), then the with block closes the
\* file and F is returned; flist[0] of an empty list raises IndexError, and the
\* with block closes the file as it stands
WritePath ==
    /\ pc = "path"
    /\ pc' = "idle"
    /\ IF flist = <<>>
       THEN err' = Err("IndexError", "write") /\ UNCHANGED fs
       ELSE /\ fs' = [fs EXCEPT ![outfn].keys = @ \cup {"path"},
                                ![outfn].path = flist[1].parent]
            /\ UNCHANGED err
    /\ UNCHANGED <<flist, P0, outfn, ticks, F, ncalls, nscanned, loaded, log,
                   readVars, paramVars>>

\* --------------------------------------------------------------- spoolpath
\* `for f in F` over an h5py dataset: its elements while the file it belongs
\* to is open; h5py invalidates every object of a file when the file is
\* closed, and iterating the dataset then raises ValueError.
IterDataset(values, fileOpen) ==
    IF fileOpen THEN [exc |-> "none", items |-> values]
    ELSE [exc |-> "ValueError", items |-> <<>>]

Loaded(exc, from, files) == [exc |-> exc, from |-> from, files |-> files]

\* the .h5 branch, lines 85-90: F = f['fn'] and P = Path(f['path'].value) are
\* taken inside the with block; flist = [P/f for f in F] runs after the block
\* has closed the file
LoadIndex(x) ==
    IF ~x.h5 THEN Loaded("OSError", "index", <<>>)       \* not an HDF5 file
    ELSE IF "fn" \notin x.keys \/ "path" \notin x.keys
    THEN Loaded("KeyError", "index", <<>>)
    ELSE LET it == IterDataset(x.fn, FALSE)
         IN  IF it.exc # "none" THEN Loaded(it.exc, "index", <<>>)
             ELSE Loaded("none", "index",
                         [k \in 1..Len(it.items) |->
                             [parent |-> x.path, name |-> it.items[k]]])

\* sorted(path.glob('*.dat')) of a directory of the output tree: it holds no
\* container files
GlobDat(path) == <<>>

spoolpath(fsys, path) ==
    LET x == fsys[path]
    IN  IF IsDir(x) THEN Loaded("none", "glob", GlobDat(path))
        ELSE IF IsFile(x)
        THEN IF path.suffix = ".h5" THEN LoadIndex(x)
             ELSE Loaded("none", "single", <<path>>)
        ELSE Loaded("FileNotFoundError", "", <<>>)

SpoolPath(path) ==
    /\ pc = "idle" /\ loaded.exc = "pending"
    /\ loaded' = [path |-> path] @@ spoolpath(fs, path)
    /\ UNCHANGED <<flist, P0, fs, pc, outfn, ticks, F, err, ncalls, nscanned, log,
                   readVars, paramVars>>

Next ==
    \/ \E o \in Targets : Call(o)
    \/ ScanFile
    \/ SortIndex
    \/ OpenTarget
    \/ WriteIndex
    \/ WriteFn
    \/ WritePath
    \/ \E path \in Targets : SpoolPath(path)

Spec == Init /\ [][Next]_vars

\* ------------------------------------------------------ Spec: the claims
Complete(x) == x.h5 /\ x.keys = {"index", "fn", "path"}

DecodeFails(f) ==
    readNeoSpool(f, P0.P, [kind |-> "int", i |-> 0], TRUE, P0.zerocol).exc # "none"

DistinctTicks ==
    \A i, j \in 1..Len(flist) : i # j => flist[i].base # flist[j].base

\* C2: over N >= 1 decodable files of one directory with pairwise distinct
\* ticks, the written index has strictly ascending ticks, its filenames are
\* the matching permutation of the input names, and spoolpath on the written
\* index returns the N paths, stored parent joined with each filename, in
\* that order. (The load is stated for a target named .h5, the name under
\* which spoolpath takes a file for an index.)
C2_SortedRoundTrip ==
    \A n \in Targets :
      (/\ Len(flist) >= 1 /\ \A i \in 1..Len(flist) : ~DecodeFails(flist[i])
       /\ DistinctTicks /\ Complete(fs[n]))
      => /\ Len(fs[n].index) = Len(flist) /\ Len(fs[n].fn) = Len(flist)
         /\ \A k \in 1..(Len(flist) - 1) : fs[n].index[k] < fs[n].index[k + 1]
         /\ \A k \in 1..Len(flist) :
               \E i \in 1..Len(flist) :
                  /\ fs[n].index[k] = ToInt64(flist[i].base)
                  /\ fs[n].fn[k] = flist[i].name
         /\ (loaded.exc # "pending" /\ loaded.path = n /\ n.suffix = ".h5")
            => /\ loaded.exc = "none" /\ loaded.from = "index"
               /\ loaded.files = [k \in 1..Len(flist) |->
                                     [parent |-> flist[1].parent, name |-> fs[n].fn[k]]]

\* C3: files that carry the same tick keep, in the written index, the
\* relative order they had in the input list (file names are input positions).
C3_StableTies ==
    \A n \in Targets :
      Complete(fs[n])
      => \A i, j \in 1..Len(fs[n].index) :
            (i < j /\ fs[n].index[i] = fs[n].index[j]) => fs[n].fn[i] < fs[n].fn[j]

\* C4: a call whose target, after the suffix normalisation, is a non-empty
\* file ends at once in the conflict error, with no file scanned and the
\* directory as it was; and no step changes a non-empty file other than the
\* target the running call has itself created.
C4_WriteOnce ==
    [][/\ (ncalls' = ncalls + 1 /\ IsFile(fs[outfn']) /\ fs[outfn'].size > 0)
          => (/\ pc' = "idle" /\ err' = Err("IOError", "conflict")
              /\ fs' = fs /\ nscanned' = 0)
       /\ \A n \in Targets :
            (/\ IsFile(fs[n]) /\ fs[n].size > 0
             /\ ~(n = outfn /\ pc \in {"index", "fn", "path"}))
            => fs'[n] = fs[n]]_vars

\* a second build into the index the first build wrote (after the suffix of
\* the name given was normalised) has ended in the conflict error
C4_Witness ==
    /\ pc = "idle" /\ ncalls = 2 /\ err = Err("IOError", "conflict")
    /\ Complete(fs[outfn]) /\ Len(fs[outfn].index) >= 2
    /\ fs[WithSuffix(outfn, ".idx")] = EmptyFile

\* C7: a file whose tick-only decode fails is left out and the build goes on:
\* the call that reached the scan returns, and its index holds the entries of
\* the files that decode.
C7_PerFileErrorsSkipped ==
    (/\ pc = "idle" /\ ncalls > 0 /\ err.at \notin {"args", "conflict", "open"}
     /\ \E i \in 1..Len(flist) : DecodeFails(flist[i]))
    => /\ err.exc = "none"
       /\ Complete(fs[outfn])
       /\ Len(fs[outfn].index) = Cardinality({i \in 1..Len(flist) : ~DecodeFails(flist[i])})

\* C8: the target is either not an index or a complete index, all three
\* entries of the sorted sequence. (Stated for the states in which no build
\* is running, the ones a failed or finished build leaves behind.)
C8_NoPartialArtifact ==
    pc = "idle"
    => \A n \in Targets :
          fs[n].h5
          => /\ Complete(fs[n])
             /\ \A k \in 1..(Len(fs[n].index) - 1) : fs[n].index[k] <= fs[n].index[k + 1]

====
